---- MODULE Spec2Model ----
(***************************************************************************)
(* Model of the declarative macro fb! of flexi_func_declarative            *)
(* (src/src/lib.rs).  The macro is a list of six macro_rules! arms; an      *)
(* invocation is a token tree sequence, the arms are tried in the order    *)
(* they are written, and the first arm whose matcher accepts the whole      *)
(* sequence is transcribed.  The model covers                               *)
(*   - the matchers and transcribers of the six arms (pure operators),     *)
(*   - the behaviour of the construct each arm emits: fn / async fn,       *)
(*     || body / || async move body, body / async move body.               *)
(*                                                                         *)
(* Token trees: every token is a record [k, v]:                            *)
(*   k = "ident" : v is the identifier or keyword text                     *)
(*   k = "punct" : v is the punctuation text ("," ":" "->")                *)
(*   k = "paren" : v is the token sequence between ( and )                 *)
(*   k = "block" : v is the body of a { ... } block                        *)
(* A body is abstracted to what a caller can observe of it: the side       *)
(* effects it performs when it runs (fx) and the expression giving its     *)
(* value (val).  A type is one token tree: a path of one identifier or a   *)
(* parenthesised tuple of types.                                           *)
(***************************************************************************)
EXTENDS Integers, Sequences, FiniteSets, TLC

VARIABLES inv, site, pc, out, evals, calls, futs, rets, effects

vars == <<inv, site, pc, out, evals, calls, futs, rets, effects>>

(***************************************************************************)
(* Bounds of the model.                                                    *)
(***************************************************************************)
MaxParams == 2
MaxRuns == 2

(***************************************************************************)
(* Token constructors.                                                     *)
(***************************************************************************)
Id(s) == [k |-> "ident", v |-> s]
Punct(s) == [k |-> "punct", v |-> s]
Paren(ts) == [k |-> "paren", v |-> ts]
Block(b) == [k |-> "block", v |-> b]

Comma == Punct(",")
Colon == Punct(":")
Arrow == Punct("->")

IsLit(t, s) == t.k = "ident" /\ t.v = s
IsPunct(t, s) == t.k = "punct" /\ t.v = s

\* Reserved words of the language that occur in the model's alphabet.
Keywords == {"async", "fn", "move"}

(***************************************************************************)
(* Fragment specifiers used by the matchers.                               *)
(***************************************************************************)
\* $x:ident accepts any identifier token, reserved words included.
IsIdentFrag(t) == t.k = "ident"

\* $x:block accepts a brace-delimited block.
IsBlockFrag(t) == t.k = "block"

\* A comma separated list of types inside a tuple type.
RECURSIVE IsTyList(_)
\* $x:ty, restricted to one token tree: a path that is not a reserved word,
\* or a tuple of types (the unit type when empty).
RECURSIVE IsTyFrag(_)
IsTyFrag(t) ==
  \/ t.k = "ident" /\ t.v \notin Keywords
  \/ t.k = "paren" /\ IsTyList(t.v)

IsTyList(ts) ==
  IF Len(ts) = 0 THEN TRUE
  ELSE /\ IsTyFrag(ts[1])
       /\ \/ Len(ts) = 1
          \/ /\ IsPunct(ts[2], ",")
             /\ IsTyList(SubSeq(ts, 3, Len(ts)))

(***************************************************************************)
(* $($param_name:ident : $param_type:ty),*  (lines 94 and 98).             *)
(* Zero or more  name : type  groups separated by single commas; no        *)
(* trailing comma.  ParamsMatch says whether the repetition accepts the    *)
(* whole content of the parenthesised group, ParamsBind gives the bound    *)
(* fragments, one record per repetition, in matching order.                *)
(***************************************************************************)
RECURSIVE ParamsMatch(_)
ParamsMatch(g) ==
  IF Len(g) = 0 THEN TRUE
  ELSE /\ Len(g) >= 3
       /\ IsIdentFrag(g[1])
       /\ IsPunct(g[2], ":")
       /\ IsTyFrag(g[3])
       /\ \/ Len(g) = 3
          \/ /\ Len(g) > 4
             /\ IsPunct(g[4], ",")
             /\ ParamsMatch(SubSeq(g, 5, Len(g)))

RECURSIVE ParamsBind(_)
ParamsBind(g) ==
  IF Len(g) < 3 THEN <<>>
  ELSE <<[param_name |-> g[1].v, param_type |-> g[3]]>>
         \o (IF Len(g) > 4 THEN ParamsBind(SubSeq(g, 5, Len(g))) ELSE <<>>)

(***************************************************************************)
(* The constructs the transcribers emit.                                   *)
(*   kind = "fn"      : a function item   [async] fn name(params) -> ret body *)
(*   kind = "closure" : || body   or   || async move body                  *)
(*   kind = "block"   : body      or   async move body                     *)
(* NoConstruct stands for "no rules expected this token": the expansion    *)
(* error of an invocation no arm accepts.                                  *)
(***************************************************************************)
NoTok == Id("")
NoBody == [fx |-> <<>>, val |-> [op |-> "none", a |-> ""]]
NoConstruct ==
  [kind |-> "none", async |-> FALSE, name |-> "", params |-> <<>>,
   ret |-> NoTok, body |-> NoBody]

\* The shape shared by the matchers of the two function arms, after the
\* mode literal:  , $fn_name:ident, ( params ), -> $return_type:ty, $body:block
FnShape(ts) ==
  /\ Len(ts) = 10
  /\ IsPunct(ts[2], ",")
  /\ IsIdentFrag(ts[3])
  /\ IsPunct(ts[4], ",")
  /\ ts[5].k = "paren"
  /\ ParamsMatch(ts[5].v)
  /\ IsPunct(ts[6], ",")
  /\ IsPunct(ts[7], "->")
  /\ IsTyFrag(ts[8])
  /\ IsPunct(ts[9], ",")
  /\ IsBlockFrag(ts[10])

\* The shape shared by the four body-only arms, after the mode literal:
\*   , <word>, $body:block
WordShape(ts, word) ==
  /\ Len(ts) = 5
  /\ IsPunct(ts[2], ",")
  /\ IsLit(ts[3], word)
  /\ IsPunct(ts[4], ",")
  /\ IsBlockFrag(ts[5])

\* Variant of EmitParams that pairs each name with the type of the mirrored
\* repetition.
EmitParams_Swapped(bound) ==
  [i \in 1..Len(bound) |->
     [name |-> bound[i].param_name,
      type |-> bound[Len(bound) + 1 - i].param_type]]

\* $($param_name : $param_type),*  in a transcriber: the repetitions in the
\* order they were bound.
EmitParams(bound) ==
  [i \in 1..Len(bound) |->
     [name |-> bound[i].param_name, type |-> bound[i].param_type]]

(***************************************************************************)
(* The six arms, in source order.  XMatches is the matcher, XExpand the    *)
(* transcriber applied to the fragments the matcher bound.                 *)
(***************************************************************************)
\* (async, $fn_name:ident, (...), -> $return_type:ty, $body:block)
AsyncFnMatches(ts) == Len(ts) >= 1 /\ IsLit(ts[1], "async") /\ FnShape(ts)

\* Variant of AsyncFnExpand that emits the item without the async keyword.
AsyncFnExpand_NoAsync(ts) ==
  [kind |-> "fn", async |-> FALSE, name |-> ts[3].v,
   params |-> EmitParams(ParamsBind(ts[5].v)), ret |-> ts[8],
   body |-> ts[10].v]

\* async fn $fn_name($($param_name : $param_type),*) -> $return_type $body
AsyncFnExpand(ts) ==
  [kind |-> "fn", async |-> TRUE, name |-> ts[3].v,
   params |-> EmitParams(ParamsBind(ts[5].v)), ret |-> ts[8],
   body |-> ts[10].v]

\* (sync, $fn_name:ident, (...), -> $return_type:ty, $body:block)
SyncFnMatches(ts) == Len(ts) >= 1 /\ IsLit(ts[1], "sync") /\ FnShape(ts)

\* Variant of SyncFnExpand that emits the template of the async arm.
SyncFnExpand_Async(ts) ==
  [kind |-> "fn", async |-> TRUE, name |-> ts[3].v,
   params |-> EmitParams(ParamsBind(ts[5].v)), ret |-> ts[8],
   body |-> ts[10].v]

\* fn $fn_name($($param_name : $param_type),*) -> $return_type $body
SyncFnExpand(ts) ==
  [kind |-> "fn", async |-> FALSE, name |-> ts[3].v,
   params |-> EmitParams(ParamsBind(ts[5].v)), ret |-> ts[8],
   body |-> ts[10].v]

\* Variant of AsyncClosureMatches whose second fragment is $word:ident
\* instead of the literal closure.
AsyncClosureMatches_AnyWord(ts) ==
  /\ Len(ts) = 5
  /\ IsLit(ts[1], "async")
  /\ IsPunct(ts[2], ",")
  /\ IsIdentFrag(ts[3])
  /\ IsPunct(ts[4], ",")
  /\ IsBlockFrag(ts[5])

\* (async, closure, $body:block)
AsyncClosureMatches(ts) ==
  Len(ts) >= 1 /\ IsLit(ts[1], "async") /\ WordShape(ts, "closure")

\* Variant of AsyncClosureExpand that emits  || $body.
AsyncClosureExpand_NoAsync(ts) ==
  [kind |-> "closure", async |-> FALSE, name |-> "", params |-> <<>>,
   ret |-> NoTok, body |-> ts[5].v]

\* || async move $body
AsyncClosureExpand(ts) ==
  [kind |-> "closure", async |-> TRUE, name |-> "", params |-> <<>>,
   ret |-> NoTok, body |-> ts[5].v]

\* (sync, closure, $body:block)
SyncClosureMatches(ts) ==
  Len(ts) >= 1 /\ IsLit(ts[1], "sync") /\ WordShape(ts, "closure")

\* Variant of SyncClosureExpand that emits  || async move $body.
SyncClosureExpand_Async(ts) ==
  [kind |-> "closure", async |-> TRUE, name |-> "", params |-> <<>>,
   ret |-> NoTok, body |-> ts[5].v]

\* Variant of SyncClosureExpand that emits  $body  without the closure bars.
SyncClosureExpand_Inline(ts) ==
  [kind |-> "block", async |-> FALSE, name |-> "", params |-> <<>>,
   ret |-> NoTok, body |-> ts[5].v]

\* || $body
SyncClosureExpand(ts) ==
  [kind |-> "closure", async |-> FALSE, name |-> "", params |-> <<>>,
   ret |-> NoTok, body |-> ts[5].v]

\* (async, execute, $body:block)
AsyncExecuteMatches(ts) ==
  Len(ts) >= 1 /\ IsLit(ts[1], "async") /\ WordShape(ts, "execute")

\* Variant of AsyncExecuteExpand that emits  $body.
AsyncExecuteExpand_Inline(ts) ==
  [kind |-> "block", async |-> FALSE, name |-> "", params |-> <<>>,
   ret |-> NoTok, body |-> ts[5].v]

\* async move $body
AsyncExecuteExpand(ts) ==
  [kind |-> "block", async |-> TRUE, name |-> "", params |-> <<>>,
   ret |-> NoTok, body |-> ts[5].v]

\* Variant of SyncExecuteMatches whose first fragment is $mode:ident instead
\* of the literal sync.
SyncExecuteMatches_AnyMode(ts) ==
  Len(ts) >= 1 /\ IsIdentFrag(ts[1]) /\ WordShape(ts, "execute")

\* (sync, execute, $body:block)
SyncExecuteMatches(ts) ==
  Len(ts) >= 1 /\ IsLit(ts[1], "sync") /\ WordShape(ts, "execute")

\* Variant of SyncExecuteExpand that emits  || $body.
SyncExecuteExpand_Closure(ts) ==
  [kind |-> "closure", async |-> FALSE, name |-> "", params |-> <<>>,
   ret |-> NoTok, body |-> ts[5].v]

\* $body
SyncExecuteExpand(ts) ==
  [kind |-> "block", async |-> FALSE, name |-> "", params |-> <<>>,
   ret |-> NoTok, body |-> ts[5].v]

NumArms == 6

\* Does arm i (counted in source order) accept the invocation?
ArmMatches(i, ts) ==
  CASE i = 1 -> AsyncFnMatches(ts)
    [] i = 2 -> SyncFnMatches(ts)
    [] i = 3 -> AsyncClosureMatches(ts)
    [] i = 4 -> SyncClosureMatches(ts)
    [] i = 5 -> AsyncExecuteMatches(ts)
    [] i = 6 -> SyncExecuteMatches(ts)

\* What arm i emits for an invocation it accepts.
ArmExpand(i, ts) ==
  CASE i = 1 -> AsyncFnExpand(ts)
    [] i = 2 -> SyncFnExpand(ts)
    [] i = 3 -> AsyncClosureExpand(ts)
    [] i = 4 -> SyncClosureExpand(ts)
    [] i = 5 -> AsyncExecuteExpand(ts)
    [] i = 6 -> SyncExecuteExpand(ts)

\* The arms that accept the invocation.
Matching(ts) == {i \in 1..NumArms : ArmMatches(i, ts)}

\* macro_rules! fb: the arms are tried top to bottom, the first one that
\* accepts is transcribed; when none does the expansion is an error.
fb(ts) ==
  IF Matching(ts) = {} THEN NoConstruct
  ELSE ArmExpand(CHOOSE i \in Matching(ts) :
                   \A j \in Matching(ts) : i <= j, ts)

(***************************************************************************)
(* Bodies and their evaluation.  The value expression of a body is         *)
(*   [op |-> "lit", a |-> text]     the text itself                         *)
(*   [op |-> "var", a |-> x]        the value bound to x                    *)
(*   [op |-> "format", a |-> x]     format!("Hello, {}", x)                 *)
(***************************************************************************)
Lit(t) == [op |-> "lit", a |-> t]
Var(x) == [op |-> "var", a |-> x]
Format(x) == [op |-> "format", a |-> x]

\* { format!("Hello, {}", name) }, the body of the documented example.
GreetBody == [fx |-> <<>>, val |-> Format("name")]
\* A body that performs one side effect and yields a constant.
LogBody == [fx |-> <<"log">>, val |-> Lit("done")]
\* A body that performs one side effect and then formats the greeting.
LogGreetBody == [fx |-> <<"log">>, val |-> Format("name")]

Bodies == {GreetBody, LogBody, LogGreetBody}

FreeVars(e) == IF e.op \in {"var", "format"} THEN {e.a} ELSE {}

Eval(e, env) ==
  CASE e.op = "lit" -> e.a
    [] e.op = "var" -> env[e.a]
    [] e.op = "format" -> "Hello, " \o env[e.a]

\* Run values and the names visible at the expansion site.
Values == {"World", "Rust"}
SiteVars == {"name"}
NoValue == "<not run>"

ParamNames(c) == {c.params[i].name : i \in 1..Len(c.params)}

\* The emitted construct is accepted by the compiler after expansion: a
\* function item has a non-reserved name, distinct non-reserved parameter
\* names, and its body sees the parameters only; the body of a closure or
\* of a block sees the names of the expansion site.
Compiles(c) ==
  CASE c.kind = "fn" ->
         /\ c.name \notin Keywords
         /\ \A i \in 1..Len(c.params) : c.params[i].name \notin Keywords
         /\ \A i, j \in 1..Len(c.params) :
              c.params[i].name = c.params[j].name => i = j
         /\ FreeVars(c.body.val) \subseteq ParamNames(c)
    [] c.kind \in {"closure", "block"} ->
         FreeVars(c.body.val) \subseteq SiteVars
    [] OTHER -> FALSE

(***************************************************************************)
(* The invocations explored: every well-formed invocation over a small     *)
(* alphabet, with well-formed and malformed parameter lists, and every     *)
(* invocation obtained from one of them by dropping one token or by        *)
(* replacing one token.                                                    *)
(***************************************************************************)
ModeWords == {"sync", "async", "blocking"}
NameWords == {"greet", "closure", "execute"}
RetTypes == {Id("String"), Paren(<<>>)}
ParamPairs ==
  {<<Id("name"), Colon, Id("String")>>,
   <<Id("x"), Colon, Id("String")>>,
   <<Id("x"), Colon, Id("u8")>>}

RECURSIVE ParamLists(_)
\* Well-formed parameter lists of exactly n parameters.
ParamLists(n) ==
  IF n = 0 THEN {<<>>}
  ELSE IF n = 1 THEN ParamPairs
  ELSE {p \o <<Comma>> \o q : p \in ParamPairs, q \in ParamLists(n - 1)}

GoodParamLists == UNION {ParamLists(n) : n \in 0..MaxParams}

BadParamLists ==
  {<<Id("name"), Colon, Id("String"), Comma>>,
   <<Id("name"), Id("String")>>,
   <<Id("name"), Colon>>,
   <<Id("name"), Colon, Id("async")>>,
   <<Id("name"), Colon, Id("String"), Id("x"), Colon, Id("u8")>>}

FnInv(m, n, ps, r, b) ==
  <<Id(m), Comma, Id(n), Comma, Paren(ps), Comma, Arrow, r, Comma, Block(b)>>

WordInv(m, w, b) == <<Id(m), Comma, Id(w), Comma, Block(b)>>

\* fb!(sync, greet, (name: String), -> String, { format!("Hello, {}", name) })
GreetInv ==
  FnInv("sync", "greet", <<Id("name"), Colon, Id("String")>>, Id("String"),
        GreetBody)

BaseInvs ==
  {FnInv(m, n, ps, r, b) :
     m \in ModeWords, n \in NameWords,
     ps \in GoodParamLists \cup BadParamLists, r \in RetTypes, b \in Bodies}
  \cup {WordInv(m, w, b) : m \in ModeWords, w \in NameWords, b \in Bodies}

Drop(ts, i) == SubSeq(ts, 1, i - 1) \o SubSeq(ts, i + 1, Len(ts))
Replace(ts, i, t) == [ts EXCEPT ![i] = t]

ReplaceToks == {Comma, Id("closure"), Id("async"), Block(LogBody), Paren(<<>>)}

Inputs ==
  BaseInvs
  \cup {Drop(ts, i) : <<ts, i>> \in
          UNION {{<<u, j>> : j \in 1..Len(u)} : u \in BaseInvs}}
  \cup {Replace(x[1], x[2], t) : x \in
          UNION {{<<u, j>> : j \in 1..Len(u)} : u \in BaseInvs},
          t \in ReplaceToks}

(***************************************************************************)
(* State.                                                                  *)
(*   inv     the tokens of the invocation  fb!( ... )                       *)
(*   site    the values of the names visible at the expansion site          *)
(*   pc      "invoke" before expansion, then "expanded" or "rejected"       *)
(*   out     the construct the expansion emitted, NoConstruct if none       *)
(*   evals   how many times the expansion site has been evaluated           *)
(*           (closure and block forms are expressions)                      *)
(*   calls   how many times the generated function or closure was called    *)
(*   futs    the deferred computations created so far, each                 *)
(*           [st |-> "pending" | "done", env, val]                          *)
(*   rets    the values produced without a deferred computation, each       *)
(*           [env, val]                                                     *)
(*   effects the side effects performed so far, in order, each tagged with  *)
(*           the run that performed it: [src |-> "fut" | "direct", idx, tag]*)
(***************************************************************************)
Init ==
  /\ inv \in Inputs
  /\ site \in [SiteVars -> Values]
  /\ pc = "invoke"
  /\ out = NoConstruct
  /\ evals = 0
  /\ calls = 0
  /\ futs = <<>>
  /\ rets = <<>>
  /\ effects = <<>>

\* The side effects of one run of a body.
RunEffects(src, idx, body) ==
  [j \in 1..Len(body.fx) |-> [src |-> src, idx |-> idx, tag |-> body.fx[j]]]

\* The body runs now, in env, and its value is handed to the caller.
RunNow(env) ==
  /\ rets' = Append(rets, [env |-> env, val |-> Eval(out.body.val, env)])
  /\ effects' = effects \o RunEffects("direct", Len(rets) + 1, out.body)
  /\ UNCHANGED futs

\* An async construct is entered: a deferred computation holding env is
\* created and nothing of the body runs.
Defer(env) ==
  /\ futs' = Append(futs, [st |-> "pending", env |-> env, val |-> NoValue])
  /\ UNCHANGED <<rets, effects>>

\* The compiler expands the invocation.
Expand ==
  /\ pc = "invoke"
  /\ out' = fb(inv)
  /\ pc' = IF fb(inv).kind = "none" THEN "rejected" ELSE "expanded"
  /\ UNCHANGED <<inv, site, evals, calls, futs, rets, effects>>

\* The generated function item is called with one argument per parameter.
CallFn(args) ==
  /\ pc = "expanded"
  /\ out.kind = "fn"
  /\ Compiles(out)
  /\ calls < MaxRuns
  /\ calls' = calls + 1
  /\ IF out.async THEN Defer(args) ELSE RunNow(args)
  /\ UNCHANGED <<inv, site, pc, out, evals>>

\* Control reaches the expansion site of a closure or block form and the
\* emitted expression is evaluated.
EvalSite ==
  /\ pc = "expanded"
  /\ out.kind \in {"closure", "block"}
  /\ Compiles(out)
  /\ evals < MaxRuns
  /\ evals' = evals + 1
  /\ IF out.kind = "closure" THEN UNCHANGED <<futs, rets, effects>>
     ELSE IF out.async THEN Defer(site)
     ELSE RunNow(site)
  /\ UNCHANGED <<inv, site, pc, out, calls>>

\* A closure value built at the expansion site is called.
CallClosure ==
  /\ pc = "expanded"
  /\ out.kind = "closure"
  /\ evals > 0
  /\ calls < MaxRuns
  /\ calls' = calls + 1
  /\ IF out.async THEN Defer(site) ELSE RunNow(site)
  /\ UNCHANGED <<inv, site, pc, out, evals>>

\* A pending deferred computation is driven to completion (awaited).
Drive(i) ==
  /\ pc = "expanded"
  /\ i \in 1..Len(futs)
  /\ futs[i].st = "pending"
  /\ futs' = [futs EXCEPT ![i] =
                [st |-> "done", env |-> futs[i].env,
                 val |-> Eval(out.body.val, futs[i].env)]]
  /\ effects' = effects \o RunEffects("fut", i, out.body)
  /\ UNCHANGED <<inv, site, pc, out, evals, calls, rets>>

Next ==
  \/ Expand
  \/ \E args \in [ParamNames(out) -> Values] : CallFn(args)
  \/ EvalSite
  \/ CallClosure
  \/ \E i \in 1..Len(futs) : Drive(i)

Spec == Init /\ [][Next]_vars

(***************************************************************************)
(* Vocabulary of the properties.                                           *)
(***************************************************************************)
\* The mode token of the invocation is one of the two recognized literals.
ModeRecognized(ts) ==
  Len(ts) >= 1 /\ (IsLit(ts[1], "sync") \/ IsLit(ts[1], "async"))

\* Nothing of a generated construct exists or has run.
NothingGenerated ==
  /\ out = NoConstruct
  /\ evals = 0 /\ calls = 0
  /\ futs = <<>> /\ rets = <<>> /\ effects = <<>>

\* The side effects performed so far by run idx of kind src, in order.
EffectsOf(src, idx) ==
  LET Mine(e) == e.src = src /\ e.idx = idx
      es == SelectSeq(effects, Mine)
  IN [j \in 1..Len(es) |-> es[j].tag]

\* Every deferred computation created so far either is pending, has no
\* value and has performed none of the body's side effects, or is done, has
\* performed exactly the body's side effects and holds the body's value;
\* and the body has run nowhere else.
DeferredOnly(body) ==
  /\ rets = <<>>
  /\ \A j \in 1..Len(effects) : effects[j].src = "fut"
  /\ \A i \in 1..Len(futs) :
       /\ futs[i].st \in {"pending", "done"}
       /\ futs[i].st = "pending" =>
            futs[i].val = NoValue /\ EffectsOf("fut", i) = <<>>
       /\ futs[i].st = "done" =>
            /\ futs[i].val = Eval(body.val, futs[i].env)
            /\ EffectsOf("fut", i) = body.fx

\* No deferred computation exists; every run so far ran the body to
\* completion, performed exactly its side effects and returned its value.
ImmediateOnly(body) ==
  /\ futs = <<>>
  /\ \A j \in 1..Len(effects) : effects[j].src = "direct"
  /\ \A k \in 1..Len(rets) :
       /\ rets[k].val = Eval(body.val, rets[k].env)
       /\ EffectsOf("direct", k) = body.fx

\* The (name, type) pairs as written in the parenthesised group of the
\* invocation, read off the raw tokens by position.
WrittenParams(g) ==
  [i \in 1..((Len(g) + 1) \div 4) |->
     [name |-> g[4 * i - 3].v, type |-> g[4 * i - 1]]]

SomePending == \E i \in 1..Len(futs) : futs[i].st = "pending"
SomeDone == \E i \in 1..Len(futs) : futs[i].st = "done"

(***************************************************************************)
(* Properties.                                                             *)
(***************************************************************************)
\* C1: an invocation that no arm accepts is rejected and nothing is
\* generated from it; in particular every invocation whose mode token is
\* neither sync nor async is rejected, whatever the other tokens are.
C1_UnmatchedRejected ==
  (pc # "invoke" /\ (Matching(inv) = {} \/ ~ModeRecognized(inv)))
    => (pc = "rejected" /\ NothingGenerated)

\* An otherwise well-formed function invocation and an otherwise well-formed
\* execute invocation with the unknown mode, after expansion was attempted.
C1_Witness ==
  /\ pc = "rejected"
  /\ Len(inv) >= 1 /\ IsLit(inv[1], "blocking")
  /\ FnShape(inv) \/ WordShape(inv, "execute")

\* C2: (function, async): every call of the generated function only creates
\* a deferred computation; while it is pending none of the body's side
\* effects has occurred, once driven it has performed them and holds the
\* body's value for the call's arguments.
C2_AsyncFnDeferred ==
  (pc = "expanded" /\ AsyncFnMatches(inv))
    => /\ out.kind = "fn"
       /\ Len(futs) = calls
       /\ evals = 0
       /\ DeferredOnly(inv[10].v)

C2_Witness ==
  /\ pc = "expanded" /\ AsyncFnMatches(inv)
  /\ inv[10].v = LogGreetBody
  /\ SomePending /\ SomeDone

\* C3: (closure, async): building the closure runs nothing, each call of
\* it only creates a deferred computation, and the body runs exactly when
\* that computation is driven, yielding the body's value.
C3_AsyncClosureDeferred ==
  (pc = "expanded" /\ AsyncClosureMatches(inv))
    => /\ out.kind = "closure"
       /\ Len(futs) = calls
       /\ (calls > 0 => evals > 0)
       /\ \A i \in 1..Len(futs) : futs[i].env = site
       /\ DeferredOnly(inv[5].v)

C3_Witness ==
  /\ pc = "expanded" /\ AsyncClosureMatches(inv)
  /\ inv[5].v = LogBody
  /\ SomePending /\ SomeDone

C6_SyncFnDirect ==
  (pc = "expanded" /\ SyncFnMatches(inv))
    => /\ out.kind = "fn"
       /\ out.name = inv[3].v
       /\ out.params = WrittenParams(inv[5].v)
       /\ out.ret = inv[8]
       /\ out.body = inv[10].v
       /\ Len(rets) = calls
       /\ evals = 0
       /\ ImmediateOnly(inv[10].v)
       /\ inv = GreetInv =>
            \A k \in 1..Len(rets) :
              rets[k].env["name"] = "World" => rets[k].val = "Hello, World"

C6_Witness ==
  /\ pc = "expanded" /\ inv = GreetInv
  /\ \E k \in 1..Len(rets) :
       rets[k].env["name"] = "World" /\ rets[k].val = "Hello, World"

\* C7: (closure, sync): the expansion is a zero-argument callable; building
\* it runs nothing; every call runs the body to completion within the call
\* and returns the body's value.
C7_SyncClosureImmediate ==
  (pc = "expanded" /\ SyncClosureMatches(inv))
    => /\ out.kind = "closure"
       /\ out.params = <<>>
       /\ Len(rets) = calls
       /\ (calls > 0 => evals > 0)
       /\ (calls = 0 => effects = <<>>)
       /\ \A k \in 1..Len(rets) : rets[k].env = site
       /\ ImmediateOnly(inv[5].v)

\* The closure was built twice and not called, then called twice.
C7_Witness ==
  /\ pc = "expanded" /\ SyncClosureMatches(inv)
  /\ inv[5].v = LogBody
  /\ evals = MaxRuns /\ calls = MaxRuns /\ Len(effects) = MaxRuns

\* C8: (execute, sync): the expansion is the body itself; every evaluation
\* of the expansion site runs the body in place and has the body's value;
\* there is nothing to call.
C8_SyncExecuteInline ==
  (pc = "expanded" /\ SyncExecuteMatches(inv))
    => /\ out.kind = "block" /\ ~out.async
       /\ out.body = inv[5].v
       /\ calls = 0
       /\ Len(rets) = evals
       /\ \A k \in 1..Len(rets) : rets[k].env = site
       /\ ImmediateOnly(inv[5].v)

C8_Witness ==
  /\ pc = "expanded" /\ SyncExecuteMatches(inv)
  /\ inv[5].v = LogGreetBody
  /\ evals = 1 /\ Len(rets) = 1 /\ Len(effects) = 1

\* C9: function forms, sync or async: the generated signature holds exactly
\* the (name, type) pairs of the invocation, each name with its own type,
\* in the order written.
C9_ParamsPreserved ==
  (pc = "expanded" /\ (AsyncFnMatches(inv) \/ SyncFnMatches(inv)))
    => /\ out.kind = "fn"
       /\ out.params = WrittenParams(inv[5].v)
       /\ Len(out.params) * 4 = Len(inv[5].v) + (IF Len(inv[5].v) = 0 THEN 0 ELSE 1)

\* Two parameters of different names and types.
C9_Witness ==
  /\ pc = "expanded" /\ out.kind = "fn"
  /\ Len(out.params) = 2
  /\ out.params[1].name = "name" /\ out.params[1].type = Id("String")
  /\ out.params[2].name = "x" /\ out.params[2].type = Id("u8")

\* C10: at most one arm accepts any invocation, so the emitted construct is
\* the one of every accepting arm and the order of the arms does not
\* matter; this includes functions named closure or execute.
C10_ArmsExclusive ==
  /\ Cardinality(Matching(inv)) <= 1
  /\ pc # "invoke" => \A i \in Matching(inv) : out = ArmExpand(i, inv)

\* A function named closure was expanded by a function arm.
C10_Witness ==
  /\ pc = "expanded"
  /\ Len(inv) = 10 /\ IsLit(inv[3], "closure")
  /\ out.kind = "fn" /\ out.name = "closure"

====
